---------------------------- MODULE Spec2Model ----------------------------
(* Model of the catalog controllers controllers/authorController.js and    *)
(* controllers/bookController.js: every request handler is one action     *)
(* over the document store (the Author, Book and BookInstance             *)
(* collections).  Text is a sequence of one-character strings, so that    *)
(* trim() and escape() are computed and not assumed.                      *)
EXTENDS Integers, Sequences, FiniteSets, TLC

VARIABLES authors, books, instances, nextId, req, log, procs

vars == <<authors, books, instances, nextId, req, log, procs>>
store == <<authors, books, instances>>

(* ------------------------------ bounds ------------------------------- *)
\* documents each collection accepts before creation is cut off
MaxAuthors == 1
MaxBooks == 1
MaxInstances == 1
\* requests in flight in the interleaved specification
MaxProcs == 2

(* ------------------------------- text -------------------------------- *)
Whitespace == {" "}
Alnum == {"a", "b", "t", "x", "0", "1", "2", "3", "4", "5", "6", "7", "8", "9"}

RECURSIVE TrimLeft(_)
TrimLeft(s) ==
    IF s # <<>> /\ Head(s) \in Whitespace THEN TrimLeft(Tail(s)) ELSE s

RECURSIVE TrimRight(_)
TrimRight(s) ==
    IF s # <<>> /\ s[Len(s)] \in Whitespace
    THEN TrimRight(SubSeq(s, 1, Len(s) - 1)) ELSE s

\* validator.js trim(): whitespace removed from both ends
Trim(s) == TrimRight(TrimLeft(s))

\* validator.js escape(): HTML entities for the special characters
EscapeChar(c) ==
    CASE c = "<" -> <<"&", "l", "t", ";">>
      [] c = ">" -> <<"&", "g", "t", ";">>
      [] c = "&" -> <<"&", "a", "m", "p", ";">>
      [] OTHER -> <<c>>

RECURSIVE Escape(_)
Escape(s) == IF s = <<>> THEN <<>> ELSE EscapeChar(Head(s)) \o Escape(Tail(s))

\* isLength({ min: 1 })
IsLengthMin1(s) == Len(s) >= 1

\* isAlphanumeric(): /^[0-9A-Z]+$/i
IsAlphanumeric(s) == s # <<>> /\ \A i \in 1..Len(s) : s[i] \in Alnum

\* optional({ values: "falsy" }): the chain is skipped for a falsy value
IsFalsy(d) == d = ""

\* isISO8601() on the date strings requests carry
IsISO8601(d) == d \in {"1775-12-16", "1817-07-18"}

\* toDate(): a Date for a parsable string, null otherwise
ToDate(d) ==
    CASE d = "1775-12-16" -> "Date(1775-12-16)"
      [] d = "1817-07-18" -> "Date(1817-07-18)"
      [] OTHER -> "null"

(* --------------------------- identities ------------------------------ *)
\* an identity no document ever has
NoSuchId == "0"
\* new Model(...) gives the document a fresh _id; an identity is one token
\* of text
IdOf(kind, n) == kind \o ToString(n)
NewId(kind) == IdOf(kind, nextId[kind])
IssuedIds(kind) == {IdOf(kind, n) : n \in 1..(nextId[kind] - 1)}
\* the identities a request can name
AuthorRouteIds == IssuedIds("A") \cup {NoSuchId}
BookRouteIds == IssuedIds("B") \cup {NoSuchId}

NullDoc == [_id |-> "null"]

\* the virtual "url" of a document
Url(entity, id) == <<"catalog", entity, id>>
AuthorsUrl == <<"catalog", "authors">>
BooksUrl == <<"catalog", "books">>

(* ----------------------------- the store ----------------------------- *)
\* Model.findById(id).exec(): the document, or null
FindById(coll, id) ==
    IF \E d \in coll : d._id = id THEN CHOOSE d \in coll : d._id = id ELSE NullDoc

\* the identities in a collection
Ids(coll) == {d._id : d \in coll}
Stored(coll, id) == id \in Ids(coll)

\* Book.find({ author: id }, "title summary")
BooksByAuthor(bs, id) == {b \in bs : b.author = id}
ProjectTitleSummary(bs) ==
    {[_id |-> b._id, title |-> b.title, summary |-> b.summary] : b \in bs}

\* BookInstance.find({ book: id })
InstancesOfBook(is, id) == {i \in is : i.book = id}

\* Model.findByIdAndDelete(id): removes the document with that _id, if any
FindByIdAndDelete(coll, id) == {d \in coll : d._id # id}

\* Model.findByIdAndUpdate(id, doc): the fields of doc replace those of the
\* stored document with that _id; nothing is inserted when there is none
FindByIdAndUpdate(coll, id, doc) ==
    {IF d._id = id THEN doc ELSE d : d \in coll}

\* Schema casting of a Date path: "" and null are stored as absent
CastDate(d) == IF d \in {"", "null"} THEN "absent" ELSE d

\* Schema casting of an ObjectId path from the sanitized form text
CastId(s) == IF Len(s) = 1 THEN s[1] ELSE NoSuchId

(* ------------------------------ the log ------------------------------ *)
\* what a handler did, in order: store writes and calls on res / next
Entry(op, what, data) == [op |-> op, what |-> what, data |-> data]
Render(view, data) == Entry("render", <<view>>, data)
Redirect(url) == Entry("redirect", url, [none |-> TRUE])
NextErr(status) == Entry("next", <<status>>, [none |-> TRUE])
Threw(err) == Entry("throw", <<err>>, [none |-> TRUE])
Wrote(op, id) == Entry(op, <<id>>, [none |-> TRUE])

Request(handler, id, body) == [handler |-> handler, id |-> id, body |-> body]
NoBody == [none |-> TRUE]

Responses(l) == {i \in 1..Len(l) : l[i].op \in {"render", "redirect", "next", "throw"}}

(* ----------------------- Author validation --------------------------- *)
\* the chain without its isAlphanumeric() validator
NameErrors_NoAlphanumeric(field, s) ==
    IF IsLengthMin1(Trim(s)) THEN <<>> ELSE <<<<field, "required">>>>

\* body("first_name").trim().isLength({min:1}).escape().isAlphanumeric()
NameSanitized(s) == Escape(Trim(s))
NameErrors(field, s) ==
    (IF IsLengthMin1(Trim(s)) THEN <<>> ELSE <<<<field, "required">>>>)
    \o (IF IsAlphanumeric(NameSanitized(s)) THEN <<>> ELSE <<<<field, "alphanumeric">>>>)

\* body(date).optional({ values: "falsy" }).isISO8601().toDate()
DateSanitized(d) == IF IsFalsy(d) THEN d ELSE ToDate(d)
DateErrors(field, d) ==
    IF IsFalsy(d) \/ IsISO8601(d) THEN <<>> ELSE <<<<field, "invalid">>>>

AuthorErrors(b) ==
    NameErrors("first_name", b.first_name)
    \o NameErrors("family_name", b.family_name)
    \o DateErrors("date_of_birth", b.date_of_birth)
    \o DateErrors("date_of_death", b.date_of_death)

\* the Author built from the fields as submitted, the sanitizers left out
NewAuthor_Unsanitized(b, id) ==
    [_id |-> id,
     first_name |-> b.first_name,
     family_name |-> b.family_name,
     date_of_birth |-> b.date_of_birth,
     date_of_death |-> b.date_of_death]

\* new Author({ ... }) from the sanitized req.body
NewAuthor(b, id) ==
    [_id |-> id,
     first_name |-> NameSanitized(b.first_name),
     family_name |-> NameSanitized(b.family_name),
     date_of_birth |-> CastDate(DateSanitized(b.date_of_birth)),
     date_of_death |-> CastDate(DateSanitized(b.date_of_death))]

(* ---------------------------- the genres ----------------------------- *)
\* The Genre collection: no handler of these two controllers writes it.
GenreCollection ==
    {[_id |-> "G1", name |-> <<"b">>], [_id |-> "G2", name |-> <<"a">>],
     [_id |-> "G3", name |-> <<"t">>]}

\* creation order of the identities of one collection
IdIndex(id) ==
    CHOOSE n \in 1..(MaxAuthors + MaxBooks + MaxInstances + Cardinality(GenreCollection)) :
        \E kind \in {"A", "B", "I", "G"} : id = IdOf(kind, n)

(* ------------------------------ sorting ------------------------------ *)
\* code-point order of the characters that occur
CharOrder ==
    <<" ", "&", "-", "0", "1", "2", "3", "4", "5", "6", "7", "8", "9",
      ";", "<", ">", "a", "b", "g", "l", "m", "p", "t", "x">>
Rank(c) == CHOOSE i \in 1..Len(CharOrder) : CharOrder[i] = c

RECURSIVE LexLess(_, _)
LexLess(s, t) ==
    IF t = <<>> THEN FALSE
    ELSE IF s = <<>> THEN TRUE
    ELSE IF Rank(Head(s)) # Rank(Head(t)) THEN Rank(Head(s)) < Rank(Head(t))
    ELSE LexLess(Tail(s), Tail(t))

\* ascending by key; documents with equal keys stay in store order (_id)
Before(k1, id1, k2, id2) == LexLess(k1, k2) \/ (k1 = k2 /\ IdIndex(id1) < IdIndex(id2))

\* Author.find().sort({ family_name: 1 })
SortedAuthors(as) ==
    CHOOSE s \in [1..Cardinality(as) -> as] :
        \A i, j \in 1..Cardinality(as) :
            i < j => Before(s[i].family_name, s[i]._id, s[j].family_name, s[j]._id)

\* Genre.find().sort({ name: 1 })
SortedGenres(gs) ==
    CHOOSE s \in [1..Cardinality(gs) -> gs] :
        \A i, j \in 1..Cardinality(gs) :
            i < j => Before(s[i].name, s[i]._id, s[j].name, s[j]._id)

\* Book.find({}, "title author").sort({ title: 1 })
SortedBooks(bs) ==
    CHOOSE s \in [1..Cardinality(bs) -> bs] :
        \A i, j \in 1..Cardinality(bs) :
            i < j => Before(s[i].title, s[i]._id, s[j].title, s[j]._id)

(* ------------------------ Book validation ---------------------------- *)
\* the first middleware of book_create_post / book_update_post:
\* req.body.genre becomes an array
GenreToArray(g) ==
    CASE g.kind = "array" -> g.v
      [] g.kind = "undefined" -> <<>>
      [] OTHER -> <<g.v>>

\* body(field, msg).trim().isLength({ min: 1 }).escape()
TextSanitized(s) == Escape(Trim(s))
TextErrors(field, s) ==
    IF IsLengthMin1(Trim(s)) THEN <<>> ELSE <<<<field, "empty">>>>

\* body("genre.*").escape()
GenreSanitized(g) == [i \in 1..Len(g) |-> Escape(g[i])]

BookErrors(b) ==
    TextErrors("title", b.title)
    \o TextErrors("author", b.author)
    \o TextErrors("summary", b.summary)
    \o TextErrors("isbn", b.isbn)

\* new Book({ ... }) from the sanitized req.body
NewBook(b, id) ==
    [_id |-> id,
     title |-> TextSanitized(b.title),
     author |-> CastId(TextSanitized(b.author)),
     summary |-> TextSanitized(b.summary),
     isbn |-> TextSanitized(b.isbn),
     genre |-> [i \in 1..Len(GenreToArray(b.genre)) |->
                   CastId(GenreSanitized(GenreToArray(b.genre))[i])]]

GenreIds(book) == {book.genre[i] : i \in 1..Len(book.genre)}

\* genre.checked = "true" for every genre of the candidate
CheckedGenres(book) ==
    LET gs == SortedGenres(GenreCollection)
    IN [i \in 1..Len(gs) |->
           [_id |-> gs[i]._id, name |-> gs[i].name,
            checked |-> gs[i]._id \in GenreIds(book)]]

\* .populate("author").populate("genre")
Populated(book) ==
    [_id |-> book._id, title |-> book.title, summary |-> book.summary,
     isbn |-> book.isbn, author |-> FindById(authors, book.author),
     genre |-> {g \in GenreCollection : g._id \in GenreIds(book)}]

(* --------------------------- request inputs -------------------------- *)
\* the forms requests submit: valid ones, and one for each way to fail
AuthorBodies ==
    {[first_name |-> <<" ", "a">>, family_name |-> <<"x">>,
      date_of_birth |-> "1775-12-16", date_of_death |-> ""],
     [first_name |-> <<"b">>, family_name |-> <<"x">>,
      date_of_birth |-> "", date_of_death |-> ""],
     [first_name |-> <<"a", "-", "b">>, family_name |-> <<"x">>,
      date_of_birth |-> "", date_of_death |-> ""],
     [first_name |-> <<>>, family_name |-> <<"<">>,
      date_of_birth |-> "", date_of_death |-> "18/07/1817"]}

GenreUndefined == [kind |-> "undefined", v |-> <<>>]
GenreSingle == [kind |-> "single", v |-> <<"G2">>]
GenreArray == [kind |-> "array", v |-> <<<<"G1">>, <<"G3">>>>]

BookBodies ==
    {[title |-> <<" ", "t">>, author |-> <<a>>, summary |-> <<"a">>,
      isbn |-> <<"1">>, genre |-> GenreUndefined] : a \in AuthorRouteIds}
    \cup
    {[title |-> <<"<">>, author |-> <<" ", a>>, summary |-> <<"a">>,
      isbn |-> <<"1">>, genre |-> GenreArray] : a \in AuthorRouteIds}
    \cup
    {[title |-> <<"t">>, author |-> <<a>>, summary |-> <<"a">>,
      isbn |-> <<"1">>, genre |-> GenreSingle] : a \in AuthorRouteIds}
    \cup
    {[title |-> <<" ">>, author |-> <<a>>, summary |-> <<"a">>,
      isbn |-> <<"1">>, genre |-> GenreSingle] : a \in AuthorRouteIds}
    \cup
    {[title |-> <<"t">>, author |-> <<>>, summary |-> <<>>,
      isbn |-> <<"1">>, genre |-> GenreArray]}

(* ------------------------------- Init -------------------------------- *)
Init ==
    /\ authors = {}
    /\ books = {}
    /\ instances = {}
    /\ nextId = [A |-> 1, B |-> 1, I |-> 1]
    /\ req = Request("none", NoSuchId, NoBody)
    /\ log = <<>>
    /\ procs = <<>>

\* requests are handled one at a time
NoRequest == Request("none", NoSuchId, NoBody)
Idle == req = NoRequest

\* the response has gone out and the request is over
respond ==
    /\ ~Idle
    /\ req' = NoRequest
    /\ log' = <<>>
    /\ UNCHANGED <<authors, books, instances, nextId, procs>>

(* -------------------------- Author handlers -------------------------- *)
author_list ==
    /\ Idle
    /\ req' = Request("author_list", NoSuchId, NoBody)
    /\ log' = <<Render("author_list", [author_list |-> SortedAuthors(authors)])>>
    /\ UNCHANGED <<authors, books, instances, nextId, procs>>

author_detail(id) ==
    LET author == FindById(authors, id)
        allBooksByAuthor == ProjectTitleSummary(BooksByAuthor(books, id))
    IN /\ Idle
       /\ req' = Request("author_detail", id, NoBody)
       /\ log' = IF author = NullDoc
                 THEN <<NextErr("404")>>
                 ELSE <<Render("author_detail",
                          [author |-> author, author_books |-> allBooksByAuthor])>>
       /\ UNCHANGED <<authors, books, instances, nextId, procs>>

author_create_get ==
    /\ Idle
    /\ req' = Request("author_create_get", NoSuchId, NoBody)
    /\ log' = <<Render("author_form", [none |-> TRUE])>>
    /\ UNCHANGED <<authors, books, instances, nextId, procs>>

author_create_post(b) ==
    LET errors == AuthorErrors(b)
        author == NewAuthor(b, NewId("A"))
    IN /\ Idle
       /\ req' = Request("author_create_post", NoSuchId, b)
       /\ IF errors # <<>>
          THEN /\ log' = <<Render("author_form", [author |-> author, errors |-> errors])>>
               /\ UNCHANGED <<authors, nextId>>
          ELSE /\ nextId.A <= MaxAuthors
               /\ authors' = authors \cup {author}
               /\ nextId' = [nextId EXCEPT !.A = @ + 1]
               /\ log' = <<Wrote("save", author._id), Redirect(Url("author", author._id))>>
       /\ UNCHANGED <<books, instances, procs>>

\* no return after res.redirect: res.render is called as well
author_delete_get(id) ==
    LET author == FindById(authors, id)
        allBooksByAuthor == ProjectTitleSummary(BooksByAuthor(books, id))
    IN /\ Idle
       /\ req' = Request("author_delete_get", id, NoBody)
       /\ log' = (IF author = NullDoc THEN <<Redirect(AuthorsUrl)>> ELSE <<>>)
                 \o <<Render("author_delete",
                        [author |-> author, author_books |-> allBooksByAuthor])>>
       /\ UNCHANGED <<authors, books, instances, nextId, procs>>

\* the dependents are those of req.params.id; the delete is of req.body.authorid
author_delete_post(id, authorid) ==
    LET author == FindById(authors, id)
        allBooksByAuthor == ProjectTitleSummary(BooksByAuthor(books, id))
    IN /\ Idle
       /\ req' = Request("author_delete_post", id, [authorid |-> authorid])
       /\ IF allBooksByAuthor # {}
          THEN /\ log' = <<Render("author_delete",
                            [author |-> author, author_books |-> allBooksByAuthor])>>
               /\ UNCHANGED authors
          ELSE /\ authors' = FindByIdAndDelete(authors, authorid)
               /\ log' = <<Wrote("delete", authorid), Redirect(AuthorsUrl)>>
       /\ UNCHANGED <<books, instances, nextId, procs>>

\* author_update_get without its null check
author_update_get_NoNullCheck(id) ==
    /\ Idle
    /\ req' = Request("author_update_get", id, NoBody)
    /\ log' = <<Render("author_form", [author |-> FindById(authors, id)])>>
    /\ UNCHANGED <<authors, books, instances, nextId, procs>>

author_update_get(id) ==
    LET author == FindById(authors, id)
    IN /\ Idle
       /\ req' = Request("author_update_get", id, NoBody)
       /\ log' = IF author = NullDoc
                 THEN <<NextErr("404")>>
                 ELSE <<Render("author_form", [author |-> author])>>
       /\ UNCHANGED <<authors, books, instances, nextId, procs>>

author_update_post(id, b) ==
    LET errors == AuthorErrors(b)
        author == NewAuthor(b, id)
    IN /\ Idle
       /\ req' = Request("author_update_post", id, b)
       /\ IF errors # <<>>
          THEN /\ log' = <<Render("author_form", [author |-> author, errors |-> errors])>>
               /\ UNCHANGED authors
          ELSE /\ authors' = FindByIdAndUpdate(authors, id, author)
               /\ log' = <<Wrote("update", id), Redirect(Url("author", author._id))>>
       /\ UNCHANGED <<books, instances, nextId, procs>>

(* --------------------------- Book handlers --------------------------- *)
\* .populate("author") on the projection "title author"
ListedBook(b) == [_id |-> b._id, title |-> b.title, author |-> FindById(authors, b.author)]

book_list ==
    LET allBooks == SortedBooks(books)
    IN /\ Idle
       /\ req' = Request("book_list", NoSuchId, NoBody)
       /\ log' = <<Render("book_list",
                     [book_list |-> [i \in 1..Len(allBooks) |-> ListedBook(allBooks[i])]])>>
       /\ UNCHANGED <<authors, books, instances, nextId, procs>>

book_detail(id) ==
    LET book == FindById(books, id)
        bookInstances == InstancesOfBook(instances, id)
    IN /\ Idle
       /\ req' = Request("book_detail", id, NoBody)
       /\ log' = IF book = NullDoc
                 THEN <<NextErr("404")>>
                 ELSE <<Render("book_detail",
                          [book |-> Populated(book), book_instances |-> bookInstances])>>
       /\ UNCHANGED <<authors, books, instances, nextId, procs>>

book_create_get ==
    /\ Idle
    /\ req' = Request("book_create_get", NoSuchId, NoBody)
    /\ log' = <<Render("book_form",
                  [authors |-> SortedAuthors(authors),
                   genres |-> SortedGenres(GenreCollection)])>>
    /\ UNCHANGED <<authors, books, instances, nextId, procs>>

book_create_post(b) ==
    LET errors == BookErrors(b)
        book == NewBook(b, NewId("B"))
    IN /\ Idle
       /\ req' = Request("book_create_post", NoSuchId, b)
       /\ IF errors # <<>>
          THEN /\ log' = <<Render("book_form",
                            [authors |-> SortedAuthors(authors),
                             genres |-> CheckedGenres(book),
                             book |-> book, errors |-> errors])>>
               /\ UNCHANGED <<books, nextId>>
          ELSE /\ nextId.B <= MaxBooks
               /\ books' = books \cup {book}
               /\ nextId' = [nextId EXCEPT !.B = @ + 1]
               /\ log' = <<Wrote("save", book._id), Redirect(Url("book", book._id))>>
       /\ UNCHANGED <<authors, instances, procs>>

\* no return after res.redirect: res.render is called as well
book_delete_get(id) ==
    LET book == FindById(books, id)
        bookInstances == InstancesOfBook(instances, id)
    IN /\ Idle
       /\ req' = Request("book_delete_get", id, NoBody)
       /\ log' = IF book = NullDoc
                 THEN <<Redirect(BooksUrl),
                        Render("book_delete", [book |-> NullDoc, book_instances |-> bookInstances])>>
                 ELSE <<Render("book_delete",
                          [book |-> Populated(book), book_instances |-> bookInstances])>>
       /\ UNCHANGED <<authors, books, instances, nextId, procs>>

\* the dependents are those of req.params.id; the delete is of req.body.id;
\* no return after the redirect for a null book
book_delete_post(id, bodyid) ==
    LET book == FindById(books, id)
        bookInstances == InstancesOfBook(instances, id)
        first == IF book = NullDoc THEN <<Redirect(BooksUrl)>> ELSE <<>>
    IN /\ Idle
       /\ req' = Request("book_delete_post", id, [id |-> bodyid])
       /\ IF bookInstances # {}
          THEN /\ log' = first \o
                         <<Render("book_delete",
                             [book |-> IF book = NullDoc THEN NullDoc ELSE Populated(book),
                              book_instances |-> bookInstances])>>
               /\ UNCHANGED books
          ELSE /\ books' = FindByIdAndDelete(books, bodyid)
               /\ log' = first \o <<Wrote("delete", bodyid), Redirect(BooksUrl)>>
       /\ UNCHANGED <<authors, instances, nextId, procs>>

book_update_get(id) ==
    LET book == FindById(books, id)
    IN /\ Idle
       /\ req' = Request("book_update_get", id, NoBody)
       /\ log' = IF book = NullDoc
                 THEN <<NextErr("404")>>
                 ELSE <<Render("book_form",
                          [authors |-> SortedAuthors(authors),
                           genres |-> CheckedGenres(book),
                           book |-> [book EXCEPT !.author = FindById(authors, book.author)]])>>
       /\ UNCHANGED <<authors, books, instances, nextId, procs>>

\* book_update_post keeping the stored genres next to the submitted ones
book_update_post_MergeGenre(id, b) ==
    LET errors == BookErrors(b)
        book == NewBook(b, id)
        thebook == FindById(books, id)
        merged == IF thebook = NullDoc THEN book
                  ELSE [book EXCEPT !.genre = thebook.genre \o @]
    IN /\ Idle
       /\ req' = Request("book_update_post", id, b)
       /\ IF errors # <<>>
          THEN /\ log' = <<Render("book_form",
                            [authors |-> SortedAuthors(authors),
                             genres |-> CheckedGenres(book),
                             book |-> book, errors |-> errors])>>
               /\ UNCHANGED books
          ELSE /\ books' = FindByIdAndUpdate(books, id, merged)
               /\ log' = <<Wrote("update", id)>> \o
                         (IF thebook = NullDoc
                          THEN <<Threw("TypeError")>>
                          ELSE <<Redirect(Url("book", thebook._id))>>)
       /\ UNCHANGED <<authors, instances, nextId, procs>>

\* findByIdAndUpdate resolves to the stored document, or to null, and
\* thebook.url is read without a null check
book_update_post(id, b) ==
    LET errors == BookErrors(b)
        book == NewBook(b, id)
        thebook == FindById(books, id)
    IN /\ Idle
       /\ req' = Request("book_update_post", id, b)
       /\ IF errors # <<>>
          THEN /\ log' = <<Render("book_form",
                            [authors |-> SortedAuthors(authors),
                             genres |-> CheckedGenres(book),
                             book |-> book, errors |-> errors])>>
               /\ UNCHANGED books
          ELSE /\ books' = FindByIdAndUpdate(books, id, book)
               /\ log' = <<Wrote("update", id)>> \o
                         (IF thebook = NullDoc
                          THEN <<Threw("TypeError")>>
                          ELSE <<Redirect(Url("book", thebook._id))>>)
       /\ UNCHANGED <<authors, instances, nextId, procs>>

(* ------------------------- BookInstance create ----------------------- *)
\* A copy of a stored Book is created (the bookinstance controller).
bookinstance_create_post(book) ==
    /\ Idle
    /\ nextId.I <= MaxInstances
    /\ req' = Request("bookinstance_create_post", NoSuchId, [book |-> book])
    /\ instances' = instances \cup {[_id |-> NewId("I"), book |-> book]}
    /\ nextId' = [nextId EXCEPT !.I = @ + 1]
    /\ log' = <<Wrote("save", NewId("I")), Redirect(Url("bookinstance", NewId("I")))>>
    /\ UNCHANGED <<authors, books, procs>>

Next ==
    \/ respond
    \/ author_list
    \/ \E id \in AuthorRouteIds : author_detail(id)
    \/ author_create_get
    \/ \E b \in AuthorBodies : author_create_post(b)
    \/ \E id \in AuthorRouteIds : author_delete_get(id)
    \/ \E id \in AuthorRouteIds, authorid \in AuthorRouteIds : author_delete_post(id, authorid)
    \/ \E id \in AuthorRouteIds : author_update_get(id)
    \/ \E id \in AuthorRouteIds, b \in AuthorBodies : author_update_post(id, b)
    \/ book_list
    \/ \E id \in BookRouteIds : book_detail(id)
    \/ book_create_get
    \/ \E b \in BookBodies : book_create_post(b)
    \/ \E id \in BookRouteIds : book_delete_get(id)
    \/ \E id \in BookRouteIds, bodyid \in BookRouteIds : book_delete_post(id, bodyid)
    \/ \E id \in BookRouteIds : book_update_get(id)
    \/ \E id \in BookRouteIds, b \in BookBodies : book_update_post(id, b)
    \/ \E b \in books : bookinstance_create_post(b._id)

Spec == Init /\ [][Next]_vars

(* --------------------- interleaved requests --------------------------- *)
\* A POST author-delete and a POST book-create in flight together: each
\* suspends at every store access (await), and the store serves one access
\* at a time.  procs holds the requests in flight, with their locals.
Proc(kind, id, book) ==
    [kind |-> kind, pc |-> "start", id |-> id,
     readAuthor |-> FALSE, author |-> NullDoc,
     readBooks |-> FALSE, allBooksByAuthor |-> {},
     book |-> book, res |-> <<>>]

\* author_delete_post is entered for a stored Author, the form naming the
\* same Author as the route
author_delete_post_begin(id) ==
    /\ Idle
    /\ Len(procs) < MaxProcs
    /\ Stored(authors, id)
    /\ procs' = Append(procs, Proc("author_delete_post", id, NullDoc))
    /\ UNCHANGED <<authors, books, instances, nextId, req, log>>

\* Author.findById(req.params.id).exec()
author_delete_post_findById(p) ==
    /\ procs[p].kind = "author_delete_post" /\ ~procs[p].readAuthor
    /\ procs' = [procs EXCEPT ![p].readAuthor = TRUE,
                              ![p].author = FindById(authors, procs[p].id)]
    /\ UNCHANGED <<authors, books, instances, nextId, req, log>>

\* Book.find({ author: req.params.id }, "title summary").exec()
author_delete_post_find(p) ==
    /\ procs[p].kind = "author_delete_post" /\ ~procs[p].readBooks
    /\ procs' = [procs EXCEPT ![p].readBooks = TRUE,
                              ![p].allBooksByAuthor =
                                  ProjectTitleSummary(BooksByAuthor(books, procs[p].id))]
    /\ UNCHANGED <<authors, books, instances, nextId, req, log>>

\* after Promise.all: the render, or findByIdAndDelete and the redirect
author_delete_post_act(p) ==
    /\ procs[p].kind = "author_delete_post" /\ procs[p].pc = "start"
    /\ procs[p].readAuthor /\ procs[p].readBooks
    /\ IF procs[p].allBooksByAuthor # {}
       THEN /\ procs' = [procs EXCEPT ![p].pc = "done",
                           ![p].res = <<Render("author_delete",
                                          [author |-> procs[p].author,
                                           author_books |-> procs[p].allBooksByAuthor])>>]
            /\ UNCHANGED authors
       ELSE /\ authors' = FindByIdAndDelete(authors, procs[p].id)
            /\ procs' = [procs EXCEPT ![p].pc = "done",
                           ![p].res = <<Wrote("delete", procs[p].id), Redirect(AuthorsUrl)>>]
    /\ UNCHANGED <<books, instances, nextId, req, log>>

\* book_create_post is entered with a valid form naming a stored Author;
\* new Book(...) takes its _id here
book_create_post_begin(b) ==
    /\ Idle
    /\ Len(procs) < MaxProcs
    /\ nextId.B <= MaxBooks
    /\ BookErrors(b) = <<>>
    /\ Stored(authors, CastId(TextSanitized(b.author)))
    /\ procs' = Append(procs, Proc("book_create_post", NoSuchId, NewBook(b, NewId("B"))))
    /\ nextId' = [nextId EXCEPT !.B = @ + 1]
    /\ UNCHANGED <<authors, books, instances, req, log>>

\* await book.save(), then the redirect
book_create_post_save(p) ==
    /\ procs[p].kind = "book_create_post" /\ procs[p].pc = "start"
    /\ books' = books \cup {procs[p].book}
    /\ procs' = [procs EXCEPT ![p].pc = "done",
                    ![p].res = <<Wrote("save", procs[p].book._id),
                                 Redirect(Url("book", procs[p].book._id))>>]
    /\ UNCHANGED <<authors, instances, nextId, req, log>>

NextConc ==
    \/ respond
    \/ \E b \in AuthorBodies : author_create_post(b)
    \/ \E id \in IssuedIds("A") : author_delete_post_begin(id)
    \/ \E p \in 1..Len(procs) : author_delete_post_findById(p)
    \/ \E p \in 1..Len(procs) : author_delete_post_find(p)
    \/ \E p \in 1..Len(procs) : author_delete_post_act(p)
    \/ \E b \in BookBodies : book_create_post_begin(b)
    \/ \E p \in 1..Len(procs) : book_create_post_save(p)

SpecConc == Init /\ [][NextConc]_vars

(* ----------------------------- properties ---------------------------- *)
AllIds == Ids(authors) \cup Ids(books) \cup Ids(instances)

AuthorPosts == {"author_create_post", "author_update_post"}
BookPosts == {"book_create_post", "book_update_post"}

\* C1: in a POST author-delete, whatever the route id and the form field
\* authorid, no Author leaves the store while a Book references it; when the
\* Author named has Books the delete view is rendered again with those Books
\* and the Author stays in the store.
C1_AuthorDeleteGuarded ==
    [][req'.handler = "author_delete_post" =>
        /\ \A a \in authors :
              ~Stored(authors', a._id) => BooksByAuthor(books, a._id) = {}
        /\ BooksByAuthor(books, req'.id) # {} =>
              /\ log' = <<Render("author_delete",
                            [author |-> FindById(authors, req'.id),
                             author_books |->
                                 ProjectTitleSummary(BooksByAuthor(books, req'.id))])>>
              /\ authors' = authors]_vars

\* C2: in a POST book-delete, whatever the route id and the form field id, a
\* Book leaves the store only when no BookInstance references that Book, and
\* a Book with instances gets the delete view again with those instances.
C2_BookDeleteGuarded ==
    [][req'.handler = "book_delete_post" =>
        /\ \A b \in books :
              ~Stored(books', b._id) => InstancesOfBook(instances, b._id) = {}
        /\ InstancesOfBook(instances, req'.id) # {} =>
              /\ log'[Len(log')].op = "render"
              /\ log'[Len(log')].data.book_instances = InstancesOfBook(instances, req'.id)
              /\ books' = books]_vars

\* C3: a POST author-delete naming a stored Author without Books redirects
\* to /catalog/authors and that Author is gone from the store, so that a
\* later author_detail of the id finds nothing.
C3_DeleteWithoutBooksSucceeds ==
    [][(/\ req'.handler = "author_delete_post"
        /\ Stored(authors, req'.id)
        /\ BooksByAuthor(books, req'.id) = {}) =>
        /\ log'[Len(log')] = Redirect(AuthorsUrl)
        /\ ~Stored(authors', req'.id)]_vars

\* the first_name examples of an input that fails validation: empty, or
\* with a character that is not alphanumeric
BadName(s) == Trim(s) = <<>> \/ \E i \in 1..Len(Trim(s)) : Trim(s)[i] \notin Alnum
\* a title that is empty after trimming
BadTitle(s) == \A i \in 1..Len(s) : s[i] \in Whitespace

AuthorCandidate(r) ==
    NewAuthor(r.body, IF r.handler = "author_create_post" THEN NewId("A") ELSE r.id)
BookCandidate(r) ==
    NewBook(r.body, IF r.handler = "book_create_post" THEN NewId("B") ELSE r.id)

\* C4: a create or update POST of an Author or a Book whose input has a
\* validation error leaves the store as it was and answers with one render
\* of the form, carrying the candidate and the errors; it never redirects.
C4_InvalidInputPersistsNothing ==
    [][/\ (/\ req'.handler \in AuthorPosts
           /\ \/ AuthorErrors(req'.body) # <<>>
              \/ BadName(req'.body.first_name)) =>
              /\ store' = store
              /\ Len(log') = 1
              /\ log'[1].op = "render" /\ log'[1].what = <<"author_form">>
              /\ log'[1].data.author = AuthorCandidate(req')
              /\ log'[1].data.errors # <<>>
              /\ log'[1].data.errors = AuthorErrors(req'.body)
       /\ (/\ req'.handler \in BookPosts
           /\ \/ BookErrors(req'.body) # <<>>
              \/ BadTitle(req'.body.title)) =>
              /\ store' = store
              /\ Len(log') = 1
              /\ log'[1].op = "render" /\ log'[1].what = <<"book_form">>
              /\ log'[1].data.book = BookCandidate(req')
              /\ log'[1].data.errors # <<>>
              /\ log'[1].data.errors = BookErrors(req'.body)]_vars

C4_Witness ==
    \/ /\ req.handler = "author_create_post"
       /\ BadName(req.body.first_name)
       /\ log # <<>> /\ log[1].op = "render"
    \/ /\ req.handler = "book_update_post"
       /\ BadTitle(req.body.title)
       /\ log # <<>> /\ log[1].op = "render"

SubmittedGenres(g) == {GenreToArray(g)[i] : i \in 1..Len(GenreToArray(g))}

ValidUpdateOfStoredBook ==
    /\ req'.handler = "book_update_post"
    /\ BookErrors(req'.body) = <<>>
    /\ Stored(books, req'.id)

FullReplace(title, author, summary, isbn) ==
    /\ Cardinality({b \in books' : b._id = req'.id}) = 1
    /\ Ids(books') = Ids(books)
    /\ \A b \in books' : b._id # req'.id => b \in books
    /\ authors' = authors /\ instances' = instances
    /\ LET n == FindById(books', req'.id)
       IN /\ {<<g>> : g \in GenreIds(n)} = SubmittedGenres(req'.body.genre)
          /\ n.title = title
          /\ <<n.author>> = author
          /\ n.summary = summary
          /\ n.isbn = isbn

\* C6 as stated: after a valid update POST of a stored Book i, exactly one
\* Book has id i, its genre set is the submitted set, its title, author,
\* summary and isbn equal the submitted values, and nothing else changed.
C6_UpdateStoresSubmittedValues ==
    [][ValidUpdateOfStoredBook =>
          FullReplace(req'.body.title, req'.body.author,
                      req'.body.summary, req'.body.isbn)]_vars

\* C6 as amended: the same, with title, author, summary and isbn equal to
\* the submitted values after trimming and HTML-escaping.
C6_UpdateStoresSanitizedValues ==
    [][ValidUpdateOfStoredBook =>
          FullReplace(Escape(Trim(req'.body.title)), Escape(Trim(req'.body.author)),
                      Escape(Trim(req'.body.summary)), Escape(Trim(req'.body.isbn)))]_vars

C6_Witness ==
    /\ req.handler = "book_update_post"
    /\ req.body.genre = GenreArray
    /\ req.body.title = <<"<">>
    /\ log = <<Wrote("update", req.id), Redirect(Url("book", req.id))>>
    /\ \E b \in books : /\ b._id = req.id
                        /\ b.genre = <<"G1", "G3">>
                        /\ b.title = <<"&", "l", "t", ";">>

\* C7: an update POST of an Author or a Book whose input passes validation
\* ends, for every route id, with a redirect to /catalog/<entity>/<id>,
\* never with an error, and leaves the identities in the store as they were.
C7_ValidUpdateRedirects ==
    [][/\ (req'.handler = "author_update_post" /\ AuthorErrors(req'.body) = <<>>) =>
              /\ log'[Len(log')] = Redirect(Url("author", req'.id))
              /\ \A i \in 1..Len(log') : log'[i].op \notin {"throw", "next"}
              /\ Ids(authors') = Ids(authors)
              /\ books' = books /\ instances' = instances
       /\ (req'.handler = "book_update_post" /\ BookErrors(req'.body) = <<>>) =>
              /\ log'[Len(log')] = Redirect(Url("book", req'.id))
              /\ \A i \in 1..Len(log') : log'[i].op \notin {"throw", "next"}
              /\ Ids(books') = Ids(books)
              /\ authors' = authors /\ instances' = instances]_vars

\* C8: the delete-confirmation GET handlers answer with exactly one
\* response: a redirect to the list URL when the id resolves to nothing (the
\* confirmation view is not rendered), the confirmation view otherwise; the
\* store is unchanged.
C8_DeleteGetAnswersOnce ==
    [][/\ req'.handler = "author_delete_get" =>
              /\ store' = store
              /\ Cardinality(Responses(log')) = 1
              /\ IF Stored(authors, req'.id)
                 THEN log'[1].op = "render" /\ log'[1].what = <<"author_delete">>
                 ELSE log' = <<Redirect(AuthorsUrl)>>
       /\ req'.handler = "book_delete_get" =>
              /\ store' = store
              /\ Cardinality(Responses(log')) = 1
              /\ IF Stored(books, req'.id)
                 THEN log'[1].op = "render" /\ log'[1].what = <<"book_delete">>
                 ELSE log' = <<Redirect(BooksUrl)>>]_vars

DetailReads == {"author_detail", "author_update_get", "book_detail", "book_update_get"}
ListReads == {"author_list", "book_list"}
ViewOf(handler) ==
    CASE handler = "author_detail" -> "author_detail"
      [] handler = "author_update_get" -> "author_form"
      [] handler = "book_detail" -> "book_detail"
      [] handler = "book_update_get" -> "book_form"
      [] handler = "author_list" -> "author_list"
      [] handler = "book_list" -> "book_list"
      [] OTHER -> "none"

\* C9: author_detail, author_update_get, book_detail and book_update_get
\* forward a 404 and render nothing when the id resolves to no entity and
\* render their view otherwise; author_list and book_list always render the
\* list view; none of the six changes the store.
C9_NotFoundOnlyForSingleReads ==
    [][/\ req'.handler \in DetailReads =>
              /\ store' = store
              /\ Len(log') = 1
              /\ IF Stored(IF req'.handler \in {"author_detail", "author_update_get"}
                           THEN authors ELSE books, req'.id)
                 THEN log'[1].op = "render" /\ log'[1].what = <<ViewOf(req'.handler)>>
                 ELSE log' = <<NextErr("404")>>
       /\ req'.handler \in ListReads =>
              /\ store' = store
              /\ Len(log') = 1
              /\ log'[1].op = "render" /\ log'[1].what = <<ViewOf(req'.handler)>>]_vars

C9_Witness ==
    \/ /\ req.handler = "book_update_get"
       /\ ~Stored(books, req.id)
       /\ log = <<NextErr("404")>>
       /\ books # {}
    \/ /\ req.handler = "author_list"
       /\ authors = {} /\ nextId.A > 1
       /\ log = <<Render("author_list", [author_list |-> <<>>])>>

\* C10: with a POST author-delete and a POST book-create naming that Author
\* interleaved at their store accesses, no stored Book references an Author
\* that has been deleted.
C10_NoBookOfDeletedAuthor ==
    \A b \in books : Stored(authors, b.author)
=============================================================================
